---- MODULE Spec2Model ----
(***************************************************************************)
(* State-machine model of src/index.js: an Express server that gates two   *)
(* routes behind an OAuth2 credential (ensureAuthenticated), exchanges an  *)
(* authorization code for a credential (/oauth2callback), exports a form   *)
(* (GET /export-form/:formId) and imports a form (POST /import-form).      *)
(*                                                                         *)
(* JavaScript values are encoded as follows.                               *)
(*  - An optional value (a property that may be absent / undefined) is a   *)
(*    set with at most one element: {} is undefined, {v} is v.             *)
(*  - A plain object used as a map (pageBreakIds) is a function whose      *)
(*    DOMAIN is the set of its own property names.                         *)
(*  - The string "undefined" is the property name JavaScript derives from  *)
(*    an undefined key.                                                    *)
(* One action is one run-to-completion step of the event loop: a handler   *)
(* runs from the event that wakes it up to its next await or to its end.   *)
(***************************************************************************)
EXTENDS Integers, Sequences, FiniteSets, TLC

\* ------------------------------------------------------------------ bounds
MaxReqs == 2      \* requests served in one behaviour
MaxTime == 2      \* the clock Date.now() runs over 1..MaxTime
MaxTokens == 2    \* credentials the authorization service hands out
MaxItems == 3     \* length of `items` in an import body

Reqs == 1..MaxReqs

VARIABLES
  env,          \* process.env.GOOGLE_TOKEN: {} when unset, {string} when set
  credentials,  \* oAuth2Client.credentials
  now,          \* Date.now()
  nextTok,      \* the authorization service: tokens handed out so far
  delivered,    \* history: the credential of the latest successful exchange/refresh
  forms,        \* the remote form service: the form created for each request
  req           \* per request: position in its handler and what it has done

vars == <<env, credentials, now, nextTok, delivered, forms, req>>

\* ------------------------------------------------------- JavaScript helpers
Undefined == "undefined"

\* google-auth-library initialises OAuth2Client.credentials to {} (an object
\* with no properties), never to undefined.
EmptyCredentials == [access_token |-> {}, expiry_date |-> {}]

Credential(id, expiry) == [access_token |-> {id}, expiry_date |-> {expiry}]

\* JSON.stringify / JSON.parse of a credential object.
JSONStringify(token) == [json |-> <<token.access_token, token.expiry_date>>]
JSONParse(str) == [access_token |-> str.json[1], expiry_date |-> str.json[2]]

\* The credential objects the program can hold.
CredentialObjects ==
  [access_token : {{}} \cup {{i} : i \in 0..MaxTokens},
   expiry_date : {{}} \cup {{e} : e \in 0..(MaxTime + 1)}]

\* `!token` on oAuth2Client.credentials: an object is truthy whatever its
\* properties are ({} included), so only a missing object is falsy.
Not(token) == token \notin CredentialObjects

\* token.expiry_date <= Date.now(); undefined <= n is false in JavaScript.
ExpiredStrict(token, t) == \E e \in token.expiry_date : e < t
Expired(token, t) == \E e \in token.expiry_date : e <= t

\* a || b on strings: the empty string (like undefined and null) is falsy.
Or(a, b) == IF a = "" THEN b ELSE a

\* The property names every plain object inherits from Object.prototype.
ObjectPrototypeKeys ==
  {"__proto__", "constructor", "hasOwnProperty", "isPrototypeOf",
   "propertyIsEnumerable", "toLocaleString", "toString", "valueOf",
   "__defineGetter__", "__defineSetter__", "__lookupGetter__", "__lookupSetter__"}

JSUndefined == [type |-> "undefined", id |-> 0]
JSInherited == [type |-> "inherited", id |-> 0]
JSItemId(n) == [type |-> "itemId", id |-> n]

\* obj[key] on a plain object: own property, else inherited, else undefined.
Lookup(obj, key) ==
  IF key \in DOMAIN obj THEN JSItemId(obj[key])
  ELSE IF key \in ObjectPrototypeKeys THEN JSInherited
  ELSE JSUndefined

EmptyObject == [k \in {} |-> 0]

\* obj[key] = value, for a value that is no object (an item identifier). The
\* key "__proto__" is the accessor plain objects inherit: its setter ignores
\* such a value and the object gets no own property. Every other key, the
\* other inherited names included, becomes an own property.
Assign(obj, key, value) ==
  IF key = "__proto__" THEN obj
  ELSE [k \in DOMAIN obj \cup {key} |-> IF k = key THEN value ELSE obj[k]]

\* ------------------------------------------------------------ import bodies
PageBreak(title) ==
  [title |-> title, pageBreakItem |-> TRUE, question |-> "none", options |-> <<>>]
Choice(title, options) ==
  [title |-> title, pageBreakItem |-> FALSE, question |-> "choice", options |-> options]
TextQuestion(title) ==
  [title |-> title, pageBreakItem |-> FALSE, question |-> "text", options |-> <<>>]
OtherItem(title) ==
  [title |-> title, pageBreakItem |-> FALSE, question |-> "none", options |-> <<>>]
\* An item that carries a pageBreakItem and a questionItem at once.
PageBreakAndChoice(title, options) ==
  [title |-> title, pageBreakItem |-> TRUE, question |-> "choice", options |-> options]
Option(value, goTo) == [value |-> value, goToSectionId |-> goTo]

ItemSet ==
  { PageBreak("A"), PageBreak("B"), PageBreak("__proto__"),
    Choice("Q", <<Option("x", "A")>>),
    Choice("R", <<Option("y", "__proto__"), Option("z", Undefined)>>),
    PageBreakAndChoice("P", <<Option("w", "B")>>),
    TextQuestion("S"), OtherItem("O") }

SeqsUpTo(S, n) == UNION { [1..k -> S] : k \in 0..n }

InfoSet == { [title |-> "T", documentTitle |-> ""], [title |-> "", documentTitle |-> "D"] }

Body(info, isArray, items) == [info |-> info, isArray |-> isArray, items |-> items]

NoBody == Body({}, FALSE, <<>>)

InvalidBodies ==
  { Body({}, TRUE, <<>>), Body({}, TRUE, <<PageBreak("A")>>),
    Body({[title |-> "T", documentTitle |-> ""]}, FALSE, <<>>), NoBody }

AllBodies ==
  InvalidBodies \cup
  { Body({i}, TRUE, s) : i \in InfoSet, s \in SeqsUpTo(ItemSet, MaxItems) }

SmallBodies ==
  { NoBody,
    Body({[title |-> "T", documentTitle |-> ""]}, TRUE, <<>>),
    Body({[title |-> "T", documentTitle |-> ""]}, TRUE,
         <<Choice("Q", <<Option("x", "A")>>), PageBreak("A")>>) }

\* ------------------------------------------------------------------ requests
Call(op) == [op |-> op, outcome |-> "pending"]

Settle(calls, outcome) == [calls EXCEPT ![Len(calls)].outcome = outcome]

IdleReq ==
  [ pc |-> "idle", route |-> "none", body |-> NoBody,
    entered |-> FALSE, calls |-> <<>>, resp |-> <<>>,
    created |-> {}, requests |-> <<>>, sent |-> <<>>,
    pageBreakIds |-> EmptyObject, formId |-> {} ]

\* The form service before forms.forms.create has made the form of a request.
NoForm == [exists |-> FALSE, title |-> "", documentTitle |-> "", items |-> <<>>]

Init ==
  /\ env \in {{}} \cup { {JSONStringify(Credential(0, e))} : e \in 1..2 }
  /\ credentials = EmptyCredentials
  /\ now = 1
  /\ nextTok = 0
  /\ delivered = {}
  /\ forms = [r \in Reqs |-> NoForm]
  /\ req = [r \in Reqs |-> IdleReq]

\* -------------------------------------------------------- credential slot
\* loadToken(): the credentials of the client after the call.
loadToken(slot, current) ==
  IF slot # {} THEN JSONParse(CHOOSE str \in slot : TRUE) ELSE current

saveTokenOnce(token) == IF env = {} THEN {JSONStringify(token)} ELSE env

\* saveToken(token): the content of the slot after the call.
saveToken(token) == {JSONStringify(token)}

\* ------------------------------------------------------- response helpers
Response(status, body) == [status |-> status, body |-> body, formId |-> {}]

\* res.send of the viewer link https://docs.google.com/forms/d/{formId}/viewform
FormLink(formId) == [status |-> "200", body |-> "viewform link", formId |-> formId]

Respond(q, r) == [q EXCEPT !.resp = Append(@, r), !.pc = "done"]

\* res.redirect('/auth')
Redirect(q) == Respond(q, Response("302", "/auth"))

\* --------------------------------------------------------------- handlers
\* GET /export-form/:formId up to its first await.
ExportStart(q) ==
  [q EXCEPT !.entered = TRUE, !.calls = Append(@, Call("get")), !.pc = "exporting"]

ValidWithoutArrayCheck(body) == body.info # {}

\* The negation of the guard of line 102: formJson.info is truthy and
\* formJson.items is an array (body-parser always supplies an object).
Valid(body) == body.info # {} /\ body.isArray

createRequestBody(body) ==
  LET info == CHOOSE i \in body.info : TRUE IN
  [title |-> Or(info.title, "Untitled Form"),
   documentTitle |-> Or(info.documentTitle, "Untitled Form")]

\* POST /import-form up to its first await.
ImportStart(q) ==
  IF ~Valid(q.body)
  THEN Respond([q EXCEPT !.entered = TRUE], Response("400", "Invalid form JSON structure."))
  ELSE [q EXCEPT !.entered = TRUE,
                 !.created = {createRequestBody(q.body)},
                 !.calls = Append(@, Call("create")),
                 !.pc = "creating"]

\* next(): the protected handler of the route runs.
Handler(q) == IF q.route = "export" THEN ExportStart(q) ELSE ImportStart(q)

\* ------------------------------------------------- building the batch
CreateItem(kind, title, options, index) ==
  [kind |-> kind, title |-> title, options |-> options, index |-> index]

\* formJson.items.forEach of lines 121-133.
RECURSIVE PageBreakPass(_, _)
PageBreakPass(items, requests) ==
  IF items = <<>> THEN requests
  ELSE LET item == Head(items) IN
       PageBreakPass(Tail(items),
         IF item.pageBreakItem
         THEN Append(requests, CreateItem("pageBreakItem", item.title, <<>>, Len(requests)))
         ELSE requests)

\* options.map of lines 138-141.
MapOptions(options, pageBreakIds) ==
  [i \in 1..Len(options) |->
     [value |-> options[i].value,
      goToSectionId |-> Lookup(pageBreakIds, options[i].goToSectionId)]]

\* The loop of lines 136-160. Reading .options of the missing choiceQuestion
\* of a question that is no choice question throws a TypeError.
RECURSIVE QuestionPass(_, _, _)
QuestionPass(items, requests, pageBreakIds) ==
  IF items = <<>> THEN [threw |-> FALSE, requests |-> requests]
  ELSE LET item == Head(items) IN
       IF item.question = "none" THEN QuestionPass(Tail(items), requests, pageBreakIds)
       ELSE IF item.question # "choice" THEN [threw |-> TRUE, requests |-> requests]
       ELSE QuestionPass(Tail(items),
              Append(requests,
                CreateItem("questionItem", item.title,
                           MapOptions(item.options, pageBreakIds), Len(requests))),
              pageBreakIds)

RECURSIVE OnePass(_, _, _)
OnePass(items, requests, pageBreakIds) ==
  IF items = <<>> THEN [threw |-> FALSE, requests |-> requests]
  ELSE LET item == Head(items) IN
       IF item.pageBreakItem
       THEN OnePass(Tail(items),
              Append(requests, CreateItem("pageBreakItem", item.title, <<>>, Len(requests))),
              pageBreakIds)
       ELSE IF item.question = "none" THEN OnePass(Tail(items), requests, pageBreakIds)
       ELSE IF item.question # "choice" THEN [threw |-> TRUE, requests |-> requests]
       ELSE OnePass(Tail(items),
              Append(requests,
                CreateItem("questionItem", item.title,
                           MapOptions(item.options, pageBreakIds), Len(requests))),
              pageBreakIds)

BuildRequestsOnePass(items, pageBreakIds) == OnePass(items, <<>>, pageBreakIds)

\* Lines 117-160: page breaks first, then the questions.
BuildRequests(items, pageBreakIds) ==
  QuestionPass(items, PageBreakPass(items, <<>>), pageBreakIds)

PrefilledPageBreakIds == [k \in {"A", "B", Undefined} |-> 1]

\* const pageBreakIds = {} (line 118)
NewPageBreakIds == EmptyObject

\* response.data.items.forEach of lines 171-175.
RECURSIVE RecordPageBreaks(_, _)
RecordPageBreaks(items, pageBreakIds) ==
  IF items = <<>> THEN pageBreakIds
  ELSE LET item == Head(items) IN
       RecordPageBreaks(Tail(items),
         IF item.pageBreakItem THEN Assign(pageBreakIds, item.title, item.itemId)
         ELSE pageBreakIds)

\* ------------------------------------------------- the remote form service
InsertAt(s, i, x) == SubSeq(s, 1, i) \o <<x>> \o SubSeq(s, i + 1, Len(s))

\* The service inserts the items one by one, each at its location.index, and
\* gives each the next item identifier of the form.
RECURSIVE ApplyBatch(_, _)
ApplyBatch(items, requests) ==
  IF requests = <<>> THEN items
  ELSE LET c == Head(requests) IN
       ApplyBatch(
         InsertAt(items, c.index,
           [title |-> c.title, pageBreakItem |-> c.kind = "pageBreakItem",
            itemId |-> Len(items) + 1]),
         Tail(requests))

\* The service rejects a batch with an insertion index beyond the end of the form.
RECURSIVE BatchAccepted(_, _)
BatchAccepted(n, requests) ==
  \/ requests = <<>>
  \/ /\ requests # <<>>
     /\ Head(requests).index \in 0..n
     /\ BatchAccepted(n + 1, Tail(requests))

\* ----------------------------------------- import: what follows each await
OnErrorSwallowBatch(q) ==
  IF q.calls[Len(q.calls)].op = "batchUpdate"
  THEN [q EXCEPT !.calls = Append(@, Call("get")), !.pc = "fetching"]
  ELSE Respond(q, Response("500", "Error creating form"))

\* The catch block of lines 182-185.
OnError(q) == Respond(q, Response("500", "Error creating form"))

\* Lines 115-170 after forms.forms.create resolved.
AfterCreate(q, formId) ==
  LET built == BuildRequests(q.body.items, NewPageBreakIds)
      q1 == [q EXCEPT !.formId = {formId}, !.requests = built.requests,
                      !.pageBreakIds = NewPageBreakIds]
  IN IF built.threw THEN OnError(q1)
     ELSE IF Len(built.requests) > 0
     THEN [q1 EXCEPT !.calls = Append(@, Call("batchUpdate")),
                     !.sent = Append(@, built.requests),
                     !.pc = "batching"]
     ELSE [q1 EXCEPT !.calls = Append(@, Call("get")), !.pc = "fetching"]

\* Line 170 after forms.forms.batchUpdate resolved.
AfterBatchUpdate(q) ==
  [q EXCEPT !.calls = Append(@, Call("get")), !.pc = "fetching"]

\* Lines 171-181 after forms.forms.get resolved with response.data.items = items
\* (an optional value); undefined.forEach throws a TypeError.
AfterGet(q, items) ==
  IF items = {} THEN OnError(q)
  ELSE Respond([q EXCEPT !.pageBreakIds =
                  RecordPageBreaks(CHOOSE s \in items : TRUE, q.pageBreakIds)],
               FormLink(q.formId))

\* ------------------------------------------------- the authorization gate
OnRefreshErrorProceed(q) == Handler(q)

\* Lines 45-48: the refresh failed.
OnRefreshError(q) == Redirect(q)

\* ensureAuthenticated (lines 34-56) after loadToken(), up to the refresh
\* call or to the end of the synchronous part of the handler next() runs.
ensureAuthenticated(q, token, t) ==
  IF Not(token) THEN Redirect(q)
  ELSE IF Expired(token, t)
  THEN [q EXCEPT !.calls = Append(@, Call("refresh")), !.pc = "refreshing"]
  ELSE Handler(q)

\* The authorization service: the credential it hands out next, which
\* expires one tick of the clock after it is issued.
IssuedToken == Credential(nextTok + 1, now + 1)

\* Requests are numbered in their order of arrival.
Arrives(r) == req[r].pc = "idle" /\ \A p \in 1..(r - 1) : req[p].pc # "idle"

\* A request to a gated route arrives.
GatedRequest(r, route, body) ==
  /\ Arrives(r)
  /\ LET token == loadToken(env, credentials) IN
     /\ credentials' = token
     /\ req' = [req EXCEPT ![r] =
                  ensureAuthenticated([@ EXCEPT !.route = route, !.body = body], token, now)]
  /\ UNCHANGED <<env, now, nextTok, delivered, forms>>

ExportRequest(r) == GatedRequest(r, "export", NoBody)

ImportRequest(r, bodies) ==
  Arrives(r) /\ \E body \in bodies : GatedRequest(r, "import", body)

\* The callback of refreshAccessToken (lines 44-52).
RefreshDone(r, ok) ==
  /\ req[r].pc = "refreshing"
  /\ IF ok
     THEN /\ nextTok < MaxTokens
          /\ LET newTokens == IssuedToken IN
               /\ nextTok' = nextTok + 1
               /\ credentials' = newTokens
               /\ env' = saveToken(newTokens)
               /\ delivered' = {newTokens}
               /\ req' = [req EXCEPT ![r] =
                            Handler([@ EXCEPT !.calls = Settle(@, "ok")])]
     ELSE /\ req' = [req EXCEPT ![r] =
                      OnRefreshError([@ EXCEPT !.calls = Settle(@, "error")])]
          /\ UNCHANGED <<env, credentials, nextTok, delivered>>
  /\ UNCHANGED <<now, forms>>

\* GET /oauth2callback up to the await of getToken (lines 68-71).
CallbackRequest(r) ==
  /\ Arrives(r)
  /\ req' = [req EXCEPT ![r] =
               [@ EXCEPT !.route = "callback", !.calls = Append(@, Call("getToken")),
                         !.pc = "exchanging"]]
  /\ UNCHANGED <<env, credentials, now, nextTok, delivered, forms>>

\* Lines 72-78 after getToken resolved or rejected.
ExchangeDone(r, ok) ==
  /\ req[r].pc = "exchanging"
  /\ IF ok
     THEN /\ nextTok < MaxTokens
          /\ LET tokens == IssuedToken IN
               /\ nextTok' = nextTok + 1
               /\ credentials' = tokens
               /\ env' = saveToken(tokens)
               /\ delivered' = {tokens}
               /\ req' = [req EXCEPT ![r] =
                            Respond([@ EXCEPT !.calls = Settle(@, "ok")],
                                    Response("200", "Authorization complete!"))]
     ELSE /\ req' = [req EXCEPT ![r] =
                      Respond([@ EXCEPT !.calls = Settle(@, "error")],
                              Response("500", "Authentication failed."))]
          /\ UNCHANGED <<env, credentials, nextTok, delivered>>
  /\ UNCHANGED <<now, forms>>

\* ---------------------------------------------------------------- export
\* Lines 89-94 after forms.forms.get resolved or rejected.
ExportDone(r, ok) ==
  /\ req[r].pc = "exporting"
  /\ req' = [req EXCEPT ![r] =
               IF ok
               THEN Respond([@ EXCEPT !.calls = Settle(@, "ok")],
                            Response("200", "form JSON"))
               ELSE Respond([@ EXCEPT !.calls = Settle(@, "error")],
                            Response("500", "Error exporting form"))]
  /\ UNCHANGED <<env, credentials, now, nextTok, delivered, forms>>

\* ---------------------------------------------------------------- import
\* forms.forms.create resolved (the service made form r) or rejected.
CreateDone(r, ok) ==
  /\ req[r].pc = "creating"
  /\ IF ok
     THEN LET info == CHOOSE c \in req[r].created : TRUE IN
          /\ forms' = [forms EXCEPT ![r] =
                         [exists |-> TRUE, title |-> info.title,
                          documentTitle |-> info.documentTitle, items |-> <<>>]]
          /\ req' = [req EXCEPT ![r] =
                       AfterCreate([@ EXCEPT !.calls = Settle(@, "ok")], r)]
     ELSE /\ req' = [req EXCEPT ![r] = OnError([@ EXCEPT !.calls = Settle(@, "error")])]
          /\ UNCHANGED forms
  /\ UNCHANGED <<env, credentials, now, nextTok, delivered>>

\* forms.forms.batchUpdate resolved (the service applied the batch) or rejected.
BatchUpdateDone(r, ok) ==
  /\ req[r].pc = "batching"
  /\ IF ok
     THEN LET batch == req[r].sent[Len(req[r].sent)] IN
          /\ BatchAccepted(Len(forms[r].items), batch)
          /\ forms' = [forms EXCEPT ![r].items = ApplyBatch(@, batch)]
          /\ req' = [req EXCEPT ![r] =
                       AfterBatchUpdate([@ EXCEPT !.calls = Settle(@, "ok")])]
     ELSE /\ req' = [req EXCEPT ![r] = OnError([@ EXCEPT !.calls = Settle(@, "error")])]
          /\ UNCHANGED forms
  /\ UNCHANGED <<env, credentials, now, nextTok, delivered>>

\* What the service puts in response.data.items: the items of the form; the
\* REST API leaves an empty repeated field out of its JSON reply, a stand-in
\* for it may send an empty array.
ItemsField(form, omitEmpty) ==
  IF form.items = <<>> /\ omitEmpty THEN {} ELSE {form.items}

\* The re-fetch forms.forms.get resolved or rejected.
GetDone(r, ok, omitEmpty) ==
  /\ req[r].pc = "fetching"
  /\ omitEmpty => (ok /\ forms[r].items = <<>>)
  /\ req' = [req EXCEPT ![r] =
               IF ok
               THEN AfterGet([@ EXCEPT !.calls = Settle(@, "ok")],
                             ItemsField(forms[r], omitEmpty))
               ELSE OnError([@ EXCEPT !.calls = Settle(@, "error")])]
  /\ UNCHANGED <<env, credentials, now, nextTok, delivered, forms>>

\* Time passes.
Tick ==
  /\ now < MaxTime
  /\ now' = now + 1
  /\ UNCHANGED <<env, credentials, nextTok, delivered, forms, req>>

\* ---------------------------------------------------------- specifications
Next ==
  \/ \E r \in Reqs : ExportRequest(r)
  \/ \E r \in Reqs : ImportRequest(r, SmallBodies)
  \/ \E r \in Reqs : CallbackRequest(r)
  \/ \E r \in Reqs, ok \in BOOLEAN : RefreshDone(r, ok)
  \/ \E r \in Reqs, ok \in BOOLEAN : ExchangeDone(r, ok)
  \/ \E r \in Reqs, ok \in BOOLEAN : ExportDone(r, ok)
  \/ \E r \in Reqs, ok \in BOOLEAN : CreateDone(r, ok)
  \/ \E r \in Reqs, ok \in BOOLEAN : BatchUpdateDone(r, ok)
  \/ \E r \in Reqs, ok \in BOOLEAN, omitEmpty \in BOOLEAN : GetDone(r, ok, omitEmpty)
  \/ Tick

\* Any interleaving of MaxReqs requests over the three routes.
Spec == Init /\ [][Next]_vars

NextImport ==
  \/ ImportRequest(1, AllBodies)
  \/ \E ok \in BOOLEAN : RefreshDone(1, ok)
  \/ \E ok \in BOOLEAN : CreateDone(1, ok)
  \/ \E ok \in BOOLEAN : BatchUpdateDone(1, ok)
  \/ \E ok \in BOOLEAN, omitEmpty \in BOOLEAN : GetDone(1, ok, omitEmpty)

\* One import request with any body of at most MaxItems items.
SpecImport == Init /\ [][NextImport]_vars

\* ------------------------------------------------------------- vocabulary
Gated(q) == q.route \in {"export", "import"}

FormOps == {"create", "batchUpdate", "get"}

Ops(calls) == [i \in 1..Len(calls) |-> calls[i].op]

FormCalls(q) == SelectSeq(q.calls, LAMBDA c : c.op \in FormOps)

RefreshCalls(q) == SelectSeq(q.calls, LAMBDA c : c.op = "refresh")

AllCallsOk(q) == \A i \in 1..Len(q.calls) : q.calls[i].outcome = "ok"

RedirectToAuth == [status |-> "302", body |-> "/auth", formId |-> {}]

ErrorCreatingForm == [status |-> "500", body |-> "Error creating form", formId |-> {}]

\* The credential a gate run finds: the slot's, or the client's when the slot is unset.
StoredExpiry == IF env = {} THEN credentials.expiry_date
                ELSE (CHOOSE str \in env : TRUE).json[2]

\* Request r passes ensureAuthenticated in this step.
AtGate(r) == req[r].pc = "idle" /\ Gated(req'[r])

\* ------------------------------------------------------------------ claims
\* C1: while no credential is present (the slot is unset and no exchange or
\* refresh has delivered one), every gated request is answered with a redirect
\* to /auth, its handler is not entered and it makes no form-service call.
C1_NoCredentialRedirects ==
  (env = {} /\ delivered = {}) =>
    \A r \in Reqs :
      Gated(req[r]) =>
        /\ req[r].resp = <<RedirectToAuth>>
        /\ ~req[r].entered
        /\ FormCalls(req[r]) = <<>>

\* C2: a gated request that finds the stored credential's expiry <= now issues
\* one refresh call and neither proceeds nor answers until that call has
\* completed; one that finds expiry > now issues no refresh call and enters its
\* handler at once; no request ever issues more than one refresh call.
C2_OneRefreshWhenExpired ==
  /\ [][\A r \in Reqs :
          AtGate(r) =>
            /\ (\E e \in StoredExpiry : e <= now) =>
                 /\ req'[r].calls = <<[op |-> "refresh", outcome |-> "pending"]>>
                 /\ ~req'[r].entered
                 /\ req'[r].resp = <<>>
            /\ (\E e \in StoredExpiry : e > now) =>
                 /\ RefreshCalls(req'[r]) = <<>>
                 /\ req'[r].entered]_vars
  /\ [](\A r \in Reqs :
          /\ Len(RefreshCalls(req[r])) <= 1
          /\ (req[r].entered \/ req[r].resp # <<>>) =>
               \A i \in 1..Len(req[r].calls) :
                 req[r].calls[i].op = "refresh" => req[r].calls[i].outcome # "pending")

\* C2 witness: a request found its credential expired, its one refresh call
\* succeeded and it then entered its handler.
C2_Witness ==
  \E r \in Reqs :
    /\ Gated(req[r]) /\ req[r].entered
    /\ Len(req[r].calls) >= 1
    /\ req[r].calls[1] = [op |-> "refresh", outcome |-> "ok"]

\* C3: when the refresh of a gated request completes, either it succeeded, the
\* new credential is in the slot and on the client and the handler is entered,
\* or it failed, the request is answered with the redirect to /auth alone, its
\* handler is never entered and the slot is as it was.
C3_RefreshOutcome ==
  /\ [][\A r \in Reqs :
          (req[r].pc = "refreshing" /\ req'[r].pc # "refreshing") =>
            \/ /\ req'[r].calls[1].outcome = "ok"
               /\ delivered' # delivered
               /\ \E t \in delivered' : env' = {JSONStringify(t)} /\ credentials' = t
               /\ req'[r].entered
            \/ /\ req'[r].calls[1].outcome = "error"
               /\ req'[r].resp = <<RedirectToAuth>>
               /\ req'[r].pc = "done"
               /\ ~req'[r].entered
               /\ FormCalls(req'[r]) = <<>>
               /\ env' = env]_vars
  /\ [](\A r \in Reqs :
          (\E i \in 1..Len(req[r].calls) :
             req[r].calls[i] = [op |-> "refresh", outcome |-> "error"]) =>
            /\ req[r].resp = <<RedirectToAuth>>
            /\ ~req[r].entered)

\* C3 witness: one request was let through by a successful refresh and
\* another was redirected by a failed one.
C3_Witness ==
  \E r1, r2 \in Reqs :
    /\ req[r1].calls # <<>> /\ req[r1].calls[1] = [op |-> "refresh", outcome |-> "ok"]
    /\ req[r1].entered
    /\ req[r2].calls = <<[op |-> "refresh", outcome |-> "error"]>>
    /\ req[r2].resp = <<RedirectToAuth>>

\* C10: the slot holds at most one credential and, once an exchange or refresh
\* has succeeded, exactly the one the latest success delivered; every step that
\* writes the slot writes the client's credential to the same value in that
\* step; a failed exchange or refresh leaves the slot as it was.
C10_LastWriteWins ==
  /\ [](/\ Cardinality(env) <= 1
        /\ \A t \in delivered : env = {JSONStringify(t)})
  /\ [][/\ (env' # env \/ delivered' # delivered) =>
            \E t \in delivered' :
              /\ env' = {JSONStringify(t)}
              /\ credentials' = t
              /\ JSONParse(CHOOSE str \in env' : TRUE) = credentials'
         /\ \A r \in Reqs :
              (/\ req[r].pc \in {"refreshing", "exchanging"}
               /\ req'[r].calls[1].outcome = "error") => env' = env]_vars

\* C10 witness: two requests found the credential expired and both refreshed
\* it; the slot holds the credential of the second refresh to complete.
C10_Witness ==
  /\ MaxReqs >= 2
  /\ nextTok = 2
  /\ \A r \in 1..2 :
       req[r].calls # <<>> /\ req[r].calls[1] = [op |-> "refresh", outcome |-> "ok"]
  /\ \E t \in delivered : t.access_token = {2} /\ env = {JSONStringify(t)}

\* The page-break items and the question items of an import body, in input order.
PageBreaksOf(body) == SelectSeq(body.items, LAMBDA it : it.pageBreakItem)

QuestionsOf(body) == SelectSeq(body.items, LAMBDA it : it.question # "none")

HasInfoAndArray(q) == q.body.info # {} /\ q.body.isArray

\* Request r is an import whose handler ran.
Imports(r) == req[r].route = "import" /\ req[r].entered

\* The client holds a credential the authorization service issued or the slot held.
Authenticated == credentials.access_token # {}

\* C4: an authenticated import with info present and items = [] whose remote
\* calls all succeeded ends with one create call, no batchUpdate call and the
\* 200 viewer link of the created form.
C4_EmptyItemsLink ==
  \A r \in Reqs :
    (/\ Authenticated /\ Imports(r) /\ HasInfoAndArray(req[r]) /\ req[r].body.items = <<>>
     /\ req[r].pc = "done" /\ AllCallsOk(req[r])) =>
      /\ req[r].resp = <<FormLink({r})>>
      /\ Ops(FormCalls(req[r])) = <<"create", "get">>

\* C5 as stated: an import that reaches its handler with info missing or items
\* no array is answered 400 and has made no remote call of any kind, none to
\* the authorization service included.
C5_NoRemoteCallAtAll ==
  \A r \in Reqs :
    (Imports(r) /\ ~HasInfoAndArray(req[r])) =>
      /\ req[r].resp = <<Response("400", "Invalid form JSON structure.")>>
      /\ req[r].calls = <<>>

\* C5 amended: such an import is answered 400, makes no form-service call and
\* creates no form; the only remote call it can have made is the one refresh
\* call of its gate, which succeeded.
C5_NoFormServiceCall ==
  \A r \in Reqs :
    (Imports(r) /\ ~HasInfoAndArray(req[r])) =>
      /\ req[r].pc = "done"
      /\ req[r].resp = <<Response("400", "Invalid form JSON structure.")>>
      /\ FormCalls(req[r]) = <<>>
      /\ ~forms[r].exists
      /\ req[r].calls \in {<<>>, <<[op |-> "refresh", outcome |-> "ok"]>>}

\* C5 witness: an invalid import was answered 400 after its gate had
\* refreshed the expired credential.
C5_Witness ==
  \E r \in Reqs :
    /\ Imports(r) /\ req[r].body.info = {} /\ req[r].body.isArray
    /\ req[r].resp # <<>>
    /\ req[r].calls = <<[op |-> "refresh", outcome |-> "ok"]>>

\* C6: every batch sent to batchUpdate holds one CreateItem per page-break
\* item of the input, in input order, then one per question item, in input
\* order, and the operation at zero-based position i carries location.index i.
C6_TwoPassOrder ==
  \A r \in Reqs :
    \A k \in 1..Len(req[r].sent) :
      LET batch == req[r].sent[k]
          pbs == PageBreaksOf(req[r].body)
          qs == QuestionsOf(req[r].body)
      IN /\ Len(batch) = Len(pbs) + Len(qs)
         /\ \A i \in 1..Len(batch) : batch[i].index = i - 1
         /\ \A i \in 1..Len(pbs) :
              batch[i].kind = "pageBreakItem" /\ batch[i].title = pbs[i].title
         /\ \A j \in 1..Len(qs) :
              /\ batch[Len(pbs) + j].kind = "questionItem"
              /\ batch[Len(pbs) + j].title = qs[j].title
              /\ Len(batch[Len(pbs) + j].options) = Len(qs[j].options)
              /\ \A o \in 1..Len(qs[j].options) :
                   batch[Len(pbs) + j].options[o].value = qs[j].options[o].value
         /\ \A i, j \in 1..Len(batch) :
              (batch[i].kind = "questionItem" /\ batch[j].kind = "pageBreakItem") => j < i

\* C6 witness: a batch was sent for an input in which a question precedes a
\* page break and another item follows.
C6_Witness ==
  \E r \in Reqs :
    /\ Len(req[r].sent) = 1
    /\ Len(req[r].body.items) >= 3
    /\ req[r].body.items[1].question = "choice"
    /\ req[r].body.items[2].pageBreakItem
    /\ Len(req[r].sent[1]) >= 3

\* C7: an authenticated import whose items hold a question that is no choice
\* question, and whose remote calls all succeeded, ends with the 200 viewer
\* link (the question is dropped, not an error).
C7_NonChoiceDropped ==
  \A r \in Reqs :
    (/\ Authenticated /\ Imports(r) /\ HasInfoAndArray(req[r])
     /\ \E i \in 1..Len(req[r].body.items) : req[r].body.items[i].question = "text"
     /\ req[r].pc = "done" /\ AllCallsOk(req[r])) =>
      req[r].resp = <<FormLink({r})>>

\* C8: a valid import one of whose form-service calls failed has ended with
\* the single response 500 'Error creating form'; the failed call is its last
\* call, no step was issued twice or out of the order create, batchUpdate,
\* get, and the form made by a successful create still exists.
C8_FailureAborts ==
  \A r \in Reqs :
    /\ Len(req[r].resp) <= 1
    /\ (/\ Imports(r) /\ HasInfoAndArray(req[r])
        /\ \E i \in 1..Len(req[r].calls) :
             req[r].calls[i].op \in FormOps /\ req[r].calls[i].outcome = "error") =>
         /\ req[r].pc = "done"
         /\ req[r].resp = <<ErrorCreatingForm>>
         /\ req[r].calls[Len(req[r].calls)].outcome = "error"
         /\ \A i \in 1..(Len(req[r].calls) - 1) : req[r].calls[i].outcome = "ok"
         /\ Ops(FormCalls(req[r])) \in
              { <<"create">>, <<"create", "batchUpdate">>, <<"create", "get">>,
                <<"create", "batchUpdate", "get">> }
         /\ (Len(FormCalls(req[r])) > 1 => forms[r].exists)

\* C8 witness: batchUpdate failed after create had made the form; the import
\* answered 500 and the form is still there.
C8_Witness ==
  \E r \in Reqs :
    /\ Imports(r) /\ req[r].calls # <<>>
    /\ req[r].calls[Len(req[r].calls)] = [op |-> "batchUpdate", outcome |-> "error"]
    /\ req[r].resp = <<ErrorCreatingForm>>
    /\ forms[r].exists

\* The options sent for the question items of request r, each with the
\* goToSectionId its source option named.
SentOptions(r) ==
  LET qs == QuestionsOf(req[r].body)
      n == Len(PageBreaksOf(req[r].body))
  IN UNION { UNION { { [source |-> qs[j].options[o].goToSectionId,
                        sent |-> req[r].sent[k][n + j].options[o].goToSectionId] :
                         o \in 1..Len(qs[j].options) } :
                     j \in 1..Len(qs) } :
             k \in 1..Len(req[r].sent) }

\* C9 as stated: the page-break index of an (authenticated) import is empty
\* until the re-fetch has answered, and every option sent to the service
\* carries an undefined goToSectionId, whatever its source option named.
C9_AllUnresolved ==
  \A r \in Reqs : Authenticated =>
    /\ req[r].pageBreakIds # EmptyObject =>
         (req[r].pc = "done" /\ req[r].calls[Len(req[r].calls)] = [op |-> "get", outcome |-> "ok"])
    /\ \A k \in 1..Len(req[r].sent) : \A i \in 1..Len(req[r].sent[k]) :
         \A o \in 1..Len(req[r].sent[k][i].options) :
           req[r].sent[k][i].options[o].goToSectionId = JSUndefined

\* C9 amended: the page-break index is empty until the re-fetch has answered,
\* after which the import makes no call; no option sent carries an identifier
\* from the index: it carries undefined, unless its source goToSectionId is
\* the name of a property plain objects inherit, when it carries that property.
C9_NeverResolved ==
  \A r \in Reqs :
    /\ req[r].pageBreakIds # EmptyObject =>
         (req[r].pc = "done" /\ req[r].calls[Len(req[r].calls)] = [op |-> "get", outcome |-> "ok"])
    /\ \A k \in 1..Len(req[r].sent) : \A i \in 1..Len(req[r].sent[k]) :
         \A o \in 1..Len(req[r].sent[k][i].options) :
           req[r].sent[k][i].options[o].goToSectionId.type # "itemId"
    /\ \A x \in SentOptions(r) :
         x.sent = IF x.source \in ObjectPrototypeKeys THEN JSInherited ELSE JSUndefined

\* C9 witness: an option naming section "A" went out unresolved, and the
\* re-fetch then recorded the identifier of page break "A".
C9_Witness ==
  \E r \in Reqs :
    /\ "A" \in DOMAIN req[r].pageBreakIds
    /\ \E x \in SentOptions(r) : x.source = "A" /\ x.sent = JSUndefined

====
